---------------------------- MODULE Spec2Model ----------------------------
(***************************************************************************)
(* Model of the request dispatch path and of the credential life cycle of  *)
(* the mangadex client: Client (src/src/client.rs), the Endpoint           *)
(* descriptors stamped by impl_endpoint! (src/src/api/*.rs) and the        *)
(* response envelope decoder (src/src/common.rs).                          *)
(*                                                                         *)
(* Option<T> is modelled as a sequence of length at most one: <<>> is None *)
(* and <<x>> is Some(x).                                                   *)
(***************************************************************************)
EXTENDS Integers, Sequences, FiniteSets, TLC

\* Number of distinct token strings the remote service may hand out.
MaxToken == 2

\* Longest "errors" list carried by an error envelope.
MaxErrors == 1

\* Longest list of envelopes in a bare array or in the results of a page.
MaxElems == 2

\* Number of callers that share one Client.
MaxCallers == 2

\* Longest list of ids in a query payload.
MaxIds == 2

\* Number of clones made of the Client.
MaxClones == 1

None == <<>>

Some(x) == <<x>>

Option(S) == {None} \cup {Some(x) : x \in S}

SeqsUpTo(S, n) == UNION {[1..k -> S] : k \in 0..n}

TokenStr == 1..MaxToken

\* schema::auth::AuthTokens
AuthTokens == [session : TokenStr, refresh : TokenStr]

\* errors::ApiError records the service may report
ApiError ==
    {[id |-> "5e50fc7b-e185-45b1-a692-58e8091b22d2", status |-> 503,
      title |-> Some("The service is unavailable"),
      detail |-> Some("Servers are burning")]}

-----------------------------------------------------------------------------
(* Endpoint descriptors: the values impl_endpoint! stamps out.  `resp` is  *)
(* the shape of the payload the endpoint's Response type expects next to   *)
(* the envelope tag: "token" ({token: AuthTokens}), "unit" (NoData) or     *)
(* "other" (any other object).                                             *)

Login ==
    [name |-> "Login", method |-> "POST", path |-> "/auth/login",
     payload |-> "body", auth |-> FALSE, out |-> "flatten_result",
     resp |-> "token"]

CheckToken ==
    [name |-> "CheckToken", method |-> "GET", path |-> "/auth/check",
     payload |-> "no_data", auth |-> TRUE, out |-> "flatten_result",
     resp |-> "other"]

Logout ==
    [name |-> "Logout", method |-> "POST", path |-> "/auth/logout",
     payload |-> "no_data", auth |-> TRUE, out |-> "discard_result",
     resp |-> "unit"]

RefreshToken ==
    [name |-> "RefreshToken", method |-> "POST", path |-> "/auth/refresh",
     payload |-> "body", auth |-> FALSE, out |-> "flatten_result",
     resp |-> "token"]

GetManga ==
    [name |-> "GetManga", method |-> "GET", path |-> "/manga/{:x}",
     payload |-> "no_data", auth |-> FALSE, out |-> "flatten_result",
     resp |-> "other"]

FollowManga ==
    [name |-> "FollowManga", method |-> "POST", path |-> "/manga/{:x}/follow",
     payload |-> "no_data", auth |-> TRUE, out |-> "discard_result",
     resp |-> "unit"]

\* Endpoints of manga/mod.rs and list.rs the Client wraps in methods of its
\* own (delete_manga, follow_manga, ...); Response = Result<NoData>.
DeleteManga ==
    [name |-> "DeleteManga", method |-> "DELETE", path |-> "/manga/{:x}",
     payload |-> "no_data", auth |-> TRUE, out |-> "discard_result",
     resp |-> "unit"]

UnfollowManga ==
    [name |-> "UnfollowManga", method |-> "DELETE",
     path |-> "/manga/{:x}/follow", payload |-> "no_data", auth |-> TRUE,
     out |-> "discard_result", resp |-> "unit"]

AddMangaToCustomList ==
    [name |-> "AddMangaToCustomList", method |-> "POST",
     path |-> "/manga/{:x}/list/{:x}", payload |-> "no_data", auth |-> TRUE,
     out |-> "discard_result", resp |-> "unit"]

RemoveMangaFromCustomList ==
    [name |-> "RemoveMangaFromCustomList", method |-> "DELETE",
     path |-> "/manga/{:x}/list/{:x}", payload |-> "no_data", auth |-> TRUE,
     out |-> "discard_result", resp |-> "unit"]

Endpoints == {Login, CheckToken, Logout, RefreshToken, GetManga, FollowManga}

\* Endpoints with a query payload, an authenticated body payload and a
\* multipart payload (api/author.rs, api/list.rs, api/cover.rs).
ListAuthors ==
    [name |-> "ListAuthors", method |-> "GET", path |-> "/author",
     payload |-> "query", auth |-> FALSE, out |-> "result",
     resp |-> "other"]

GetLoggedUserCustomLists ==
    [name |-> "GetLoggedUserCustomLists", method |-> "GET",
     path |-> "/user/list", payload |-> "query", auth |-> TRUE,
     out |-> "result", resp |-> "other"]

CreateAuthor ==
    [name |-> "CreateAuthor", method |-> "POST", path |-> "/author",
     payload |-> "body", auth |-> TRUE, out |-> "flatten_result",
     resp |-> "other"]

UploadCover ==
    [name |-> "UploadCover", method |-> "POST", path |-> "/cover/{:x}",
     payload |-> "multipart", auth |-> TRUE, out |-> "flatten_result",
     resp |-> "other"]

Descriptors ==
    Endpoints
    \cup {ListAuthors, GetLoggedUserCustomLists, CreateAuthor, UploadCover}

-----------------------------------------------------------------------------
(* What the network can answer.  A body is either not JSON at all or a     *)
(* JSON object with an envelope tag ("ok", "error", some other string, or  *)
(* no tag), a payload and an optional "errors" list.                       *)

Statuses == {200, 503}

Tags == {"ok", "error", "bogus", "absent"}

Data ==
    {[kind |-> "unit", token |-> None], [kind |-> "other", token |-> None]}
    \cup {[kind |-> "token", token |-> Some(t)] : t \in AuthTokens}

\* Payload fields that may accompany a tag other than "ok".
Stray ==
    {[kind |-> "unit", token |-> None],
     [kind |-> "token", token |-> Some([session |-> 1, refresh |-> 1])]}

NotJson ==
    [json |-> FALSE, result |-> "absent",
     data |-> [kind |-> "unit", token |-> None], errors |-> None]

Bodies ==
    {NotJson}
    \cup [json : {TRUE}, result : {"ok"}, data : Data, errors : {None}]
    \cup [json : {TRUE}, result : {"error"}, data : Stray,
          errors : Option(SeqsUpTo(ApiError, MaxErrors))]
    \cup [json : {TRUE}, result : {"bogus", "absent"}, data : Stray,
          errors : {None}]

\* None: the transport failed (no response); Some(r): response r arrived.
NetAnswers == Option([status : Statuses, body : Bodies])

-----------------------------------------------------------------------------
(* errors::Result values.  kind is "Ok" or the Errors variant.             *)

Ok(data) == [kind |-> "Ok", tokens |-> data.token, errors |-> <<>>]

Unit == [kind |-> "Ok", tokens |-> None, errors |-> <<>>]

Err(k) == [kind |-> k, tokens |-> None, errors |-> <<>>]

ApiErr(errs) == [kind |-> "Api", tokens |-> None, errors |-> errs]

\* res.json::<ApiResult<T, ApiErrors>>(): None when serde rejects the body
ApiResult(e, body) ==
    IF ~body.json THEN None
    ELSE CASE body.result = "ok" ->
                 IF body.data.kind = e.resp
                 THEN Some([ok |-> TRUE, data |-> body.data, errors |-> <<>>])
                 ELSE None
           [] body.result = "error" ->
                 Some([ok |-> FALSE, data |-> body.data,
                       errors |-> IF body.errors = None THEN <<>>
                                  ELSE body.errors[1]])
           [] OTHER -> None

\* impl FromResponse for Result<T, Errors>
from_response(value) ==
    IF value.ok THEN Ok(value.data) ELSE ApiErr(value.errors)


-----------------------------------------------------------------------------
(* The dispatcher.  Every handler below is a function of the credentials   *)
(* stored when it is called, its arguments and the network's answer; it    *)
(* yields the requests it put on the wire, its return value and the        *)
(* credentials it leaves stored.                                           *)

\* Client::get_tokens
get_tokens(toks) == toks

\* set_tokens that only ever installs a pair
set_tokens_ignore_none(toks, new) == IF new = None THEN toks ELSE new

\* Client::set_tokens
set_tokens(toks, new) == new

\* One key=value pair of a query string when field k of q is Some(v).
QueryField(q, k) ==
    IF k \in DOMAIN q /\ q[k] # None
    THEN <<[key |-> k, index |-> None, value |-> q[k][1]]>>
    ELSE <<>>

\* UrlSerdeQS::query_qs, that is serde_qs::to_string: the fields in the
\* order of the struct, a None left out, a list as ids[0]=..&ids[1]=..
query_qs(q) ==
    QueryField(q, "limit") \o QueryField(q, "offset")
    \o (IF "ids" \in DOMAIN q
        THEN [i \in 1..Len(q.ids) |->
                [key |-> "ids", index |-> Some(i - 1), value |-> q.ids[i]]]
        ELSE <<>>)
    \o QueryField(q, "name")

\* a request that carries the payload both in the query string and the body
Request_payload_twice(e, data, bearer) ==
    [endpoint |-> e.name, auth |-> e.auth, method |-> e.method,
     path |-> e.path,
     query |-> IF e.payload = "query" THEN Some(query_qs(data)) ELSE None,
     body |-> IF e.payload \in {"body", "query"} THEN Some(data) ELSE None,
     multipart |-> IF e.payload = "multipart" THEN Some(data) ELSE None,
     bearer |-> bearer]

\* The request send_request builds for endpoint e carrying `data`.
Request(e, data, bearer) ==
    [endpoint |-> e.name, auth |-> e.auth, method |-> e.method,
     path |-> e.path,
     query |-> IF e.payload = "query" THEN Some(query_qs(data)) ELSE None,
     body |-> IF e.payload = "body" THEN Some(data) ELSE None,
     multipart |-> IF e.payload = "multipart" THEN Some(data) ELSE None,
     bearer |-> bearer]

\* send_request's tail with one retry after a transport failure
Transmit_retry(e, req, net) ==
    IF net = None
    THEN [wire |-> <<req, req>>, res |-> [kind |-> "Http", inner |-> None]]
    ELSE LET value == ApiResult(e, net[1].body)
         IN [wire |-> <<req>>,
             res |-> IF value = None THEN [kind |-> "Http", inner |-> None]
                     ELSE [kind |-> "Ok",
                           inner |-> Some(from_response(value[1]))]]

\* req.send().await? followed by res.json::<..>().await? and from_response
Transmit(e, req, net) ==
    [wire |-> <<req>>,
     res |-> IF net = None THEN [kind |-> "Http", inner |-> None]
             ELSE LET value == ApiResult(e, net[1].body)
                  IN IF value = None THEN [kind |-> "Http", inner |-> None]
                     ELSE [kind |-> "Ok",
                           inner |-> Some(from_response(value[1]))]]

\* send_request of the earlier dispatcher: a bearer credential only for
\* endpoints that require authentication
send_request_bearer_if_required(toks, e, data, net) ==
    IF e.auth
    THEN IF get_tokens(toks) = None
         THEN [wire |-> <<>>, res |-> [kind |-> "MissingTokens", inner |-> None]]
         ELSE Transmit(e, Request(e, data, Some(get_tokens(toks)[1].session)),
                       net)
    ELSE Transmit(e, Request(e, data, None), net)

\* send_request without the require_auth early return
send_request_unguarded(toks, e, data, net) ==
    IF get_tokens(toks) # None
    THEN Transmit(e, Request(e, data, Some(get_tokens(toks)[1].session)), net)
    ELSE Transmit(e, Request(e, data, None), net)

\* send_request that attaches the refresh token as the bearer credential
send_request_refresh_bearer(toks, e, data, net) ==
    IF get_tokens(toks) # None
    THEN Transmit(e, Request(e, data, Some(get_tokens(toks)[1].refresh)), net)
    ELSE IF e.auth
         THEN [wire |-> <<>>, res |-> [kind |-> "MissingTokens", inner |-> None]]
         ELSE Transmit(e, Request(e, data, None), net)

\* Client::send_request
send_request(toks, e, data, net) ==
    IF get_tokens(toks) # None
    THEN Transmit(e, Request(e, data, Some(get_tokens(toks)[1].session)), net)
    ELSE IF e.auth
         THEN [wire |-> <<>>, res |-> [kind |-> "MissingTokens", inner |-> None]]
         ELSE Transmit(e, Request(e, data, None), net)

\* a send() whose discard_result arm looks at the dispatch only: `?; Ok(())`
send_discard_envelope(toks, e, data, net) ==
    LET r == send_request(toks, e, data, net)
        flat == IF r.res.kind # "Ok" THEN Err(r.res.kind) ELSE r.res.inner[1]
    IN [wire |-> r.wire,
        res |-> IF e.out = "discard_result"
                THEN IF r.res.kind = "Ok" THEN Unit ELSE flat
                ELSE flat]

\* The send() impl_endpoint! generates: `?` for flatten_result, `??; Ok(())`
\* for discard_result.
send(toks, e, data, net) ==
    LET r == send_request(toks, e, data, net)
        flat == IF r.res.kind # "Ok" THEN Err(r.res.kind) ELSE r.res.inner[1]
    IN [wire |-> r.wire,
        res |-> IF e.out = "discard_result" /\ flat.kind = "Ok" THEN Unit
                ELSE flat]

\* login that replaces the session token of a stored pair only
login_keep_refresh(toks, username, password, net) ==
    LET r == send(toks, Login,
                  [username |-> username, password |-> password], net)
    IN IF r.res.kind # "Ok"
       THEN [tokens |-> toks, wire |-> r.wire, res |-> r.res]
       ELSE [tokens |-> IF toks = None THEN Some(r.res.tokens[1])
                        ELSE Some([session |-> r.res.tokens[1].session,
                                   refresh |-> toks[1].refresh]),
             wire |-> r.wire, res |-> r.res]

\* login that returns the pair without storing it
login_no_store(toks, username, password, net) ==
    LET r == send(toks, Login,
                  [username |-> username, password |-> password], net)
    IN [tokens |-> toks, wire |-> r.wire, res |-> r.res]

\* login that drops the stored pair when the call fails
login_clear_on_error(toks, username, password, net) ==
    LET r == send(toks, Login,
                  [username |-> username, password |-> password], net)
    IN IF r.res.kind # "Ok"
       THEN [tokens |-> None, wire |-> r.wire, res |-> r.res]
       ELSE [tokens |-> Some(r.res.tokens[1]), wire |-> r.wire,
             res |-> r.res]

\* Client::login
login(toks, username, password, net) ==
    LET r == send(toks, Login,
                  [username |-> username, password |-> password], net)
    IN IF r.res.kind # "Ok"
       THEN [tokens |-> toks, wire |-> r.wire, res |-> r.res]
       ELSE LET stored == set_tokens(toks, Some(r.res.tokens[1]))
            IN [tokens |-> stored, wire |-> r.wire,
                res |-> [kind |-> "Ok", tokens |-> get_tokens(stored),
                         errors |-> <<>>]]

\* logout that forgets to clear the stored pair
logout_keep(toks, net) ==
    LET r == send(toks, Logout, None, net)
    IN [tokens |-> toks, wire |-> r.wire, res |-> r.res]

\* logout that clears the stored pair before looking at the outcome
logout_always_clear(toks, net) ==
    LET r == send(toks, Logout, None, net)
    IN [tokens |-> None, wire |-> r.wire, res |-> r.res]

\* Client::logout
logout(toks, net) ==
    LET r == send(toks, Logout, None, net)
    IN IF r.res.kind # "Ok"
       THEN [tokens |-> toks, wire |-> r.wire, res |-> r.res]
       ELSE [tokens |-> set_tokens(toks, None), wire |-> r.wire, res |-> Unit]

\* refresh_tokens that falls back to a default token instead of failing
refresh_tokens_default(toks, net) ==
    LET tok == IF toks = None THEN 1 ELSE toks[1].refresh
        r == send(toks, RefreshToken, [token |-> tok], net)
    IN IF r.res.kind # "Ok"
       THEN [tokens |-> toks, wire |-> r.wire, res |-> r.res]
       ELSE [tokens |-> Some(r.res.tokens[1]), wire |-> r.wire,
             res |-> r.res]

\* refresh_tokens that replaces the session token only
refresh_tokens_session_only(toks, net) ==
    IF toks = None
    THEN [tokens |-> toks, wire |-> <<>>, res |-> Err("MissingTokens")]
    ELSE LET r == send(toks, RefreshToken,
                       [token |-> toks[1].refresh], net)
         IN IF r.res.kind # "Ok"
            THEN [tokens |-> toks, wire |-> r.wire, res |-> r.res]
            ELSE [tokens |-> Some([session |-> r.res.tokens[1].session,
                                   refresh |-> toks[1].refresh]),
                  wire |-> r.wire, res |-> r.res]

\* refresh_tokens that drops the stored pair when the call fails
refresh_tokens_clear_on_error(toks, net) ==
    IF toks = None
    THEN [tokens |-> toks, wire |-> <<>>, res |-> Err("MissingTokens")]
    ELSE LET r == send(toks, RefreshToken,
                       [token |-> toks[1].refresh], net)
         IN IF r.res.kind # "Ok"
            THEN [tokens |-> None, wire |-> r.wire, res |-> r.res]
            ELSE [tokens |-> Some(r.res.tokens[1]), wire |-> r.wire,
                  res |-> r.res]

\* Client::refresh_tokens
refresh_tokens(toks, net) ==
    IF get_tokens(toks) = None
    THEN [tokens |-> toks, wire |-> <<>>, res |-> Err("MissingTokens")]
    ELSE LET r == send(toks, RefreshToken,
                       [token |-> get_tokens(toks)[1].refresh], net)
         IN IF r.res.kind # "Ok"
            THEN [tokens |-> toks, wire |-> r.wire, res |-> r.res]
            ELSE [tokens |-> set_tokens(toks, Some(r.res.tokens[1])),
                  wire |-> r.wire, res |-> r.res]

\* Result<Result<NoData>>::map(|_| ()): the outer Ok becomes Ok(()) whatever
\* it holds; an outer error is kept.
map_unit(r) ==
    [wire |-> r.wire,
     res |-> IF r.res.kind = "Ok" THEN Unit ELSE Err(r.res.kind)]

\* Client::delete_manga (manga/mod.rs)
delete_manga(toks, net) == map_unit(send_request(toks, DeleteManga, None, net))

\* Client::follow_manga (manga/mod.rs)
follow_manga(toks, net) == map_unit(send_request(toks, FollowManga, None, net))

\* Client::unfollow_manga (manga/mod.rs)
unfollow_manga(toks, net) ==
    map_unit(send_request(toks, UnfollowManga, None, net))

\* Client::add_manga_to_custom_list (list.rs)
add_manga_to_custom_list(toks, net) ==
    map_unit(send_request(toks, AddMangaToCustomList, None, net))

\* Client::remove_manga_from_custom_list (list.rs)
remove_manga_from_custom_list(toks, net) ==
    map_unit(send_request(toks, RemoveMangaFromCustomList, None, net))

\* Bodies GET /ping may answer with (it does not answer JSON).
PingTexts == {"pong", "PONG", "pong ", ""}

PingAnswers == Option([status : Statuses, text : PingTexts])

\* The request ping builds: self.http.get(base_url.join("/ping"))
PingRequest ==
    [endpoint |-> "Ping", auth |-> FALSE, method |-> "GET", path |-> "/ping",
     query |-> None, body |-> None, bearer |-> None]

\* ping that compares the body without regard to case
ping_ignore_case(toks, net) ==
    [tokens |-> toks, wire |-> <<PingRequest>>,
     res |-> IF net = None THEN Err("Http")
             ELSE IF net[1].text \in {"pong", "PONG"} THEN Unit
             ELSE Err("PingError")]

\* Client::ping
ping(toks, net) ==
    [tokens |-> toks, wire |-> <<PingRequest>>,
     res |-> IF net = None THEN Err("Http")
             ELSE IF net[1].text = "pong" THEN Unit
             ELSE Err("PingError")]

-----------------------------------------------------------------------------
(* The response envelope decoder in detail (src/src/common.rs).  A JSON    *)
(* body is text that is not JSON, one envelope object, a bare array of     *)
(* envelopes, or a page object {results, limit, offset, total}.  A JSON    *)
(* field that may be missing is an Option.                                 *)

\* common::Relationship values
Relationships ==
    {[id |-> "c0ee660b-f9f2-45c3-8068-5123ff53f84a", type |-> "author"]}

\* JSON objects found under "data"; ApiObject needs its id
DataObjects ==
    [id : Option({"24b6d026-a7cb-498e-8717-26b2831cf318"}),
     attributes : {"legacyId:1", "legacyId:2"}]

\* JSON objects found in an "errors" list
ErrorObjects ==
    {[id |-> Some("5e50fc7b-e185-45b1-a692-58e8091b22d2"),
      status |-> Some(503), title |-> Some("The service is unavailable"),
      detail |-> Some("Servers are burning")],
     [id |-> Some("5e50fc7b-e185-45b1-a692-58e8091b22d2"),
      status |-> Some(404), title |-> None, detail |-> None],
     [id |-> None, status |-> Some(503),
      title |-> Some("The service is unavailable"), detail |-> None],
     [id |-> Some("5e50fc7b-e185-45b1-a692-58e8091b22d2"),
      status |-> None, title |-> None,
      detail |-> Some("Servers are burning")]}

\* JSON envelope objects; result "absent" is an object without the tag
Envelopes ==
    [result : {"ok"}, data : Option(DataObjects),
     relationships : Option(SeqsUpTo(Relationships, 1)), errors : {None}]
    \cup [result : {"error"}, data : {None}, relationships : {None},
          errors : Option(SeqsUpTo(ErrorObjects, MaxErrors))]
    \cup [result : {"bogus", "absent"},
          data : {None, Some([id |-> Some("24b6d026-a7cb-498e-8717-26b2831cf318"),
                              attributes |-> "legacyId:1"])},
          relationships : {None}, errors : {None}]

\* limit, offset and total of a page; None when the object lacks them
Paging == [limit : {10, 100}, offset : {0, 10}, total : {2}]

\* the body of Client::new's state: nothing was received
NoBody == [form |-> "text", items |-> <<>>, paging |-> None]

JsonBodies ==
    {NoBody}
    \cup [form : {"object"}, items : [1..1 -> Envelopes], paging : {None}]
    \cup [form : {"array"}, items : SeqsUpTo(Envelopes, MaxElems),
          paging : {None}]
    \cup [form : {"page"}, items : SeqsUpTo(Envelopes, MaxElems),
          paging : Option(Paging)]

\* Deserialize for ApiObject<A>
ApiObject(j) ==
    IF j.id = None THEN None
    ELSE Some([id |-> j.id[1], attributes |-> j.attributes])

\* ApiData that insists on a relationships field
ApiData_strict(el) ==
    IF el.data = None \/ el.relationships = None THEN None
    ELSE LET o == ApiObject(el.data[1])
         IN IF o = None THEN None
            ELSE Some([data |-> o[1], relationships |-> el.relationships[1]])

\* Deserialize for ApiData<T>: data is required, relationships defaults
ApiData(el) ==
    IF el.data = None THEN None
    ELSE LET o == ApiObject(el.data[1])
         IN IF o = None THEN None
            ELSE Some([data |-> o[1],
                       relationships |-> IF el.relationships = None THEN <<>>
                                         ELSE el.relationships[1]])

\* Deserialize for ApiError that forgets the detail
deserialize_ApiError_no_detail(j) ==
    IF j.id = None \/ j.status = None THEN None
    ELSE Some([id |-> j.id[1], status |-> j.status[1], title |-> j.title,
               detail |-> None])

\* Deserialize for errors::ApiError: id and status are required
deserialize_ApiError(j) ==
    IF j.id = None \/ j.status = None THEN None
    ELSE Some([id |-> j.id[1], status |-> j.status[1], title |-> j.title,
               detail |-> j.detail])

\* Deserialize for errors::ApiErrors: errors defaults to the empty list
ApiErrors(el) ==
    LET js == IF el.errors = None THEN <<>> ELSE el.errors[1]
    IN IF \E i \in DOMAIN js : deserialize_ApiError(js[i]) = None THEN None
       ELSE Some([i \in DOMAIN js |-> deserialize_ApiError(js[i])[1]])

\* ApiResultDef that takes an unknown or missing tag for "ok"
ApiResultDef_default_ok(el) ==
    IF el.result = "error"
    THEN LET errs == ApiErrors(el)
         IN IF errs = None THEN None
            ELSE Some([ok |-> FALSE, value |-> errs[1]])
    ELSE LET v == ApiData(el)
         IN IF v = None THEN None ELSE Some([ok |-> TRUE, value |-> v[1]])

\* Deserialize for ApiResultDef<T, ApiErrors>, tagged by "result"
ApiResultDef(el) ==
    CASE el.result = "ok" ->
             LET v == ApiData(el)
             IN IF v = None THEN None
                ELSE Some([ok |-> TRUE, value |-> v[1]])
      [] el.result = "error" ->
             LET errs == ApiErrors(el)
             IN IF errs = None THEN None
                ELSE Some([ok |-> FALSE, value |-> errs[1]])
      [] OTHER -> None

\* ApiResult::into_result followed by map_err(|e| e.into())
into_result(r) ==
    IF r.ok
    THEN [kind |-> "Ok", data |-> r.value.data,
          relationships |-> r.value.relationships]
    ELSE [kind |-> "Api", errors |-> r.value]

\* a list decoder that leaves out the elements serde rejects
deserialize_Vec_lenient(items) ==
    LET kept == SelectSeq(items, LAMBDA el : ApiResultDef(el) # None)
    IN Some([i \in DOMAIN kept |-> ApiResultDef(kept[i])[1]])

\* Deserialize for Vec<ApiResult<T>>: one rejected element rejects the list
deserialize_Vec(items) ==
    IF \E i \in DOMAIN items : ApiResultDef(items[i]) = None THEN None
    ELSE Some([i \in DOMAIN items |-> ApiResultDef(items[i])[1]])

\* from_response that fails every element once one element is an error
from_response_Vec_all_or_nothing(value) ==
    IF \E i \in DOMAIN value : ~value[i].ok
    THEN LET j == CHOOSE i \in DOMAIN value : ~value[i].ok
         IN [i \in DOMAIN value |-> into_result(value[j])]
    ELSE [i \in DOMAIN value |-> into_result(value[i])]

\* impl FromResponse for Vec<Result<T, Errors>>
from_response_Vec(value) == [i \in DOMAIN value |-> into_result(value[i])]

\* from_response for a page that hands the elements over last first
from_response_Results_reversed(value) ==
    [results |-> [i \in DOMAIN value.results |->
                     into_result(value.results[Len(value.results) + 1 - i])],
     offset |-> value.offset,
     limit |-> value.limit,
     total |-> value.total]

\* impl FromResponse for Results<Result<T, Errors>>
from_response_Results(value) ==
    [results |-> [i \in DOMAIN value.results |->
                     into_result(value.results[i])],
     offset |-> value.offset,
     limit |-> value.limit,
     total |-> value.total]

\* The error of res.json() when serde rejects the body: Errors::Http
\* holding a reqwest::Error whose is_decode() is true.
DecodeError ==
    [kind |-> "Http", is_decode |-> TRUE, items |-> <<>>, paging |-> None]

\* send_request's tail for an endpoint whose Response is Result<T>
decode_Result(body) ==
    IF body.form # "object" THEN DecodeError
    ELSE LET value == ApiResultDef(body.items[1])
         IN IF value = None THEN DecodeError
            ELSE [kind |-> "Ok", is_decode |-> FALSE,
                  items |-> <<into_result(value[1])>>, paging |-> None]

\* send_request's tail for an endpoint whose Response is Vec<Result<T>>
decode_Vec(body) ==
    IF body.form # "array" THEN DecodeError
    ELSE LET value == deserialize_Vec(body.items)
         IN IF value = None THEN DecodeError
            ELSE [kind |-> "Ok", is_decode |-> FALSE,
                  items |-> from_response_Vec(value[1]), paging |-> None]

\* send_request's tail for an endpoint whose Response is Results<Result<T>>
decode_Results(body) ==
    IF body.form # "page" \/ body.paging = None THEN DecodeError
    ELSE LET value == deserialize_Vec(body.items)
         IN IF value = None THEN DecodeError
            ELSE LET out == from_response_Results(
                                [results |-> value[1],
                                 limit |-> body.paging[1].limit,
                                 offset |-> body.paging[1].offset,
                                 total |-> body.paging[1].total])
                 IN [kind |-> "Ok", is_decode |-> FALSE,
                     items |-> out.results,
                     paging |-> Some([limit |-> out.limit,
                                      offset |-> out.offset,
                                      total |-> out.total])]

-----------------------------------------------------------------------------
(* Callers that share one Client.  An async method borrows the Client for *)
(* as long as its future lives: `&mut self` (login, logout,                *)
(* refresh_tokens, set_tokens) exclusively, `&self` (send_request,         *)
(* get_tokens and the reference it returns) shared.                        *)

Callers == 1..MaxCallers

\* A caller with no call in flight.  held is the Option<&AuthTokens> a
\* caller got from get_tokens and still holds.
Idle == [op |-> "idle", pre |-> None, req |-> <<>>, held |-> None]

VARIABLES
    tokens,     \* Client.tokens : Option<AuthTokens>
    wire,       \* the requests the transport received during the last call
    lastCall,   \* the last call made on the Client and what it returned
    prevCall,   \* "login" when the call immediately before it was login
    doc,        \* a response body handed to the envelope decoder
    decoded,    \* what the decoder made of doc, once it has run
    calls,      \* per caller sharing the Client: the call it has in flight
    copies      \* the credentials stored in each clone made of the Client

vars == <<tokens, wire, lastCall, prevCall, doc, decoded, calls, copies>>

Usernames == {"test"}

Passwords == {"hunter1"}

\* a constructor that starts out with a pair stored
Init_with_tokens ==
    /\ tokens = Some([session |-> 1, refresh |-> 1])
    /\ wire = <<>>
    /\ lastCall = [op |-> "new", endpoint |-> "", auth |-> FALSE,
                   pre |-> None, net |-> None, res |-> Unit]
    /\ prevCall = "other"
    /\ doc = NoBody
    /\ decoded = None
    /\ calls = [c \in Callers |-> Idle]
    /\ copies = <<>>

\* Client::new
Init ==
    /\ tokens = None
    /\ wire = <<>>
    /\ lastCall = [op |-> "new", endpoint |-> "", auth |-> FALSE,
                   pre |-> None, net |-> None, res |-> Unit]
    /\ prevCall = "other"
    /\ doc = NoBody
    /\ decoded = None
    /\ calls = [c \in Callers |-> Idle]
    /\ copies = <<>>

\* A call of `op` returned with outcome `out`; net is the network's answer
\* to the request it sent, if it sent one.
Return(op, e, net, out) ==
    /\ tokens' = out.tokens
    /\ wire' = out.wire
    /\ lastCall' = [op |-> op, endpoint |-> e.name, auth |-> e.auth,
                    pre |-> tokens,
                    net |-> IF out.wire = <<>> THEN None ELSE net,
                    res |-> out.res]
    /\ prevCall' = IF lastCall.op = "login" THEN "login" ELSE "other"
    /\ UNCHANGED <<doc, decoded, calls, copies>>

CallLogin ==
    \E u \in Usernames, p \in Passwords, net \in NetAnswers :
        Return("login", Login, net, login(tokens, u, p, net))

CallLogout ==
    \E net \in NetAnswers :
        Return("logout", Logout, net, logout(tokens, net))

CallRefreshTokens ==
    \E net \in NetAnswers :
        Return("refresh_tokens", RefreshToken, net,
               refresh_tokens(tokens, net))

\* client.set_tokens(new)
CallSetTokens ==
    \E new \in Option(AuthTokens) :
        Return("set_tokens", [name |-> "", auth |-> FALSE], None,
               [tokens |-> set_tokens(tokens, new), wire |-> <<>>,
                res |-> Unit])

\* client.get_tokens()
CallGetTokens ==
    Return("get_tokens", [name |-> "", auth |-> FALSE], None,
           [tokens |-> tokens, wire |-> <<>>,
            res |-> [kind |-> "Ok", tokens |-> get_tokens(tokens),
                     errors |-> <<>>]])

\* The data a caller can put in endpoint e.
Payloads(e) ==
    CASE e.name = "Login" ->
            [username : Usernames, password : Passwords]
      [] e.name = "RefreshToken" -> [token : TokenStr]
      [] OTHER -> {None}

\* endpoint.send(&client) where Login.send also stores the pair it receives
CallSend_storing ==
    \E e \in Endpoints, net \in NetAnswers :
        \E data \in Payloads(e) :
            LET r == send(tokens, e, data, net)
            IN Return("send", e, net,
                      [tokens |-> IF e.name = "Login" /\ r.res.kind = "Ok"
                                  THEN r.res.tokens ELSE tokens,
                       wire |-> r.wire, res |-> r.res])

\* endpoint.send(&client) on any endpoint struct of the api module
CallSend ==
    \E e \in Endpoints, net \in NetAnswers :
        \E data \in Payloads(e) :
            LET r == send(tokens, e, data, net)
            IN Return("send", e, net,
                      [tokens |-> tokens, wire |-> r.wire, res |-> r.res])

\* client.delete_manga(id), and the four methods written like it
CallDeleteManga ==
    \E net \in NetAnswers :
        LET r == delete_manga(tokens, net)
        IN Return("delete_manga", DeleteManga, net,
                  [tokens |-> tokens, wire |-> r.wire, res |-> r.res])

CallFollowManga ==
    \E net \in NetAnswers :
        LET r == follow_manga(tokens, net)
        IN Return("follow_manga", FollowManga, net,
                  [tokens |-> tokens, wire |-> r.wire, res |-> r.res])

CallUnfollowManga ==
    \E net \in NetAnswers :
        LET r == unfollow_manga(tokens, net)
        IN Return("unfollow_manga", UnfollowManga, net,
                  [tokens |-> tokens, wire |-> r.wire, res |-> r.res])

CallAddMangaToCustomList ==
    \E net \in NetAnswers :
        LET r == add_manga_to_custom_list(tokens, net)
        IN Return("add_manga_to_custom_list", AddMangaToCustomList, net,
                  [tokens |-> tokens, wire |-> r.wire, res |-> r.res])

CallRemoveMangaFromCustomList ==
    \E net \in NetAnswers :
        LET r == remove_manga_from_custom_list(tokens, net)
        IN Return("remove_manga_from_custom_list", RemoveMangaFromCustomList,
                  net, [tokens |-> tokens, wire |-> r.wire, res |-> r.res])

\* client.ping()
CallPing ==
    \E net \in PingAnswers :
        Return("ping", [name |-> "Ping", auth |-> FALSE], net,
               ping(tokens, net))

Next ==
    \/ CallDeleteManga
    \/ CallFollowManga
    \/ CallUnfollowManga
    \/ CallAddMangaToCustomList
    \/ CallRemoveMangaFromCustomList
    \/ CallPing
    \/ CallLogin
    \/ CallLogout
    \/ CallRefreshTokens
    \/ CallSetTokens
    \/ CallGetTokens
    \/ CallSend

Spec == Init /\ [][Next]_vars

-----------------------------------------------------------------------------
(* Properties of the credential life cycle.                                *)

\* The network answered the last call with a response (no transport error).
Answered == lastCall.net # None

Body == lastCall.net[1].body

Status == lastCall.net[1].status

\* The answer carries an error envelope.
ErrorEnvelope == Answered /\ Body.json /\ Body.result = "error"

\* The answer carries an ok envelope whose payload has shape k.
OkEnvelope(k) ==
    Answered /\ Body.json /\ Body.result = "ok" /\ Body.data.kind = k

\* The remote call of the last operation failed: transport error, body that
\* does not decode into an envelope with a payload of shape k, or error
\* envelope.
RemoteFailed(k) == wire # <<>> /\ ~OkEnvelope(k)

\* C1: an endpoint flagged auth-required (logout included) dispatched on a
\* Client that stores no session token fails with the missing-credentials
\* error and no request reaches the network for that call.
C1_AuthRequiredFailsLocally ==
    (lastCall.op \in {"send", "logout"} /\ lastCall.auth
        /\ lastCall.pre = None)
    => (lastCall.res.kind = "MissingTokens" /\ wire = <<>>)

C1_Witness ==
    /\ lastCall.op = "send"
    /\ lastCall.endpoint = "FollowManga"
    /\ lastCall.pre = None
    /\ lastCall.res.kind = "MissingTokens"

\* C2: every request on the wire for an auth-required endpoint carries a
\* bearer credential, and it is the session token stored in the Client when
\* the call was dispatched.
C2_AuthRequestCarriesStoredSession ==
    \A i \in DOMAIN wire :
        wire[i].auth =>
            /\ lastCall.pre # None
            /\ wire[i].bearer = Some(lastCall.pre[1].session)

C2_Witness ==
    /\ lastCall.op = "send"
    /\ lastCall.endpoint = "CheckToken"
    /\ Len(wire) = 1
    /\ wire[1].bearer = Some(lastCall.pre[1].session)
    /\ lastCall.pre[1].session # lastCall.pre[1].refresh

\* C3: when the service answers login with an ok envelope carrying a
\* (session, refresh) pair, login stores exactly that pair and returns it.
C3_LoginStoresReturnedPair ==
    (lastCall.op = "login" /\ OkEnvelope("token"))
    => /\ lastCall.res.kind = "Ok"
       /\ tokens = Body.data.token
       /\ lastCall.res.tokens = Body.data.token

C3_Witness ==
    /\ lastCall.op = "login"
    /\ OkEnvelope("token")
    /\ lastCall.pre # None
    /\ tokens # lastCall.pre

\* C4 as stated: a login answered with a non-2xx status or with an error
\* envelope leaves the stored credentials unchanged and returns an error.
C4_NonSuccessStatusFailsLogin ==
    (lastCall.op = "login" /\ Answered
        /\ (Status \notin 200..299 \/ ErrorEnvelope))
    => (lastCall.res.kind # "Ok" /\ tokens = lastCall.pre)

\* C4 (amended): when login fails, meaning the transport fails, the body
\* does not decode into an envelope carrying a token pair, or the body is an
\* error envelope (whatever the HTTP status), the stored credentials are
\* those stored before the call and an error is returned: the API error
\* with the envelope's list for an error envelope, the HTTP error otherwise.
C4_FailedLoginKeepsCredentials ==
    (lastCall.op = "login" /\ RemoteFailed("token"))
    => /\ tokens = lastCall.pre
       /\ lastCall.res.kind = IF ErrorEnvelope THEN "Api" ELSE "Http"
       /\ lastCall.res.tokens = None

C4_Witness ==
    /\ lastCall.op = "login"
    /\ ErrorEnvelope
    /\ lastCall.pre # None
    /\ tokens = lastCall.pre
    /\ lastCall.res.kind = "Api"

\* C5: when logout is called with stored credentials and the service
\* answers with an ok envelope, the Client holds no credentials afterwards.
C5_LogoutClearsCredentials ==
    (lastCall.op = "logout" /\ lastCall.pre # None /\ OkEnvelope("unit"))
    => (lastCall.res.kind = "Ok" /\ tokens = None)

C5_Witness ==
    /\ lastCall.op = "logout"
    /\ lastCall.pre # None
    /\ OkEnvelope("unit")
    /\ Status = 200
    /\ tokens = None

\* C6: when logout's remote call fails (transport error, undecodable body
\* or error envelope), logout returns that error and the stored pair is the
\* pair stored before the call.
C6_FailedLogoutKeepsCredentials ==
    (lastCall.op = "logout" /\ RemoteFailed("unit"))
    => /\ tokens = lastCall.pre
       /\ tokens # None
       /\ lastCall.res.kind = IF ErrorEnvelope THEN "Api" ELSE "Http"
       /\ ErrorEnvelope =>
            lastCall.res.errors =
                (IF Body.errors = None THEN <<>> ELSE Body.errors[1])

C6_Witness ==
    /\ lastCall.op = "logout"
    /\ ErrorEnvelope
    /\ Status = 503
    /\ Len(lastCall.res.errors) = 1
    /\ tokens = lastCall.pre

\* C7 as stated: login followed immediately by logout leaves the Client
\* with no stored credentials.
C7_LoginThenLogoutLeavesNone ==
    (prevCall = "login" /\ lastCall.op = "logout") => tokens = None

\* C7 (amended): login followed immediately by a logout whose remote call
\* does not fail (logout succeeds, or fails locally for want of credentials)
\* leaves the Client with no stored credentials.
C7_LoginThenLogoutDone ==
    (prevCall = "login" /\ lastCall.op = "logout"
        /\ lastCall.res.kind \in {"Ok", "MissingTokens"})
    => tokens = None

C7_Witness ==
    /\ prevCall = "login"
    /\ lastCall.op = "logout"
    /\ lastCall.res.kind = "Ok"
    /\ lastCall.pre # None
    /\ tokens = None

\* C8: refresh on a Client with no stored credentials fails with the
\* missing-credentials error, sends nothing and leaves the credentials
\* absent.
C8_RefreshNeedsCredentials ==
    (lastCall.op = "refresh_tokens" /\ lastCall.pre = None)
    => /\ lastCall.res.kind = "MissingTokens"
       /\ wire = <<>>
       /\ tokens = None

C8_Witness ==
    /\ lastCall.op = "refresh_tokens"
    /\ lastCall.pre = None
    /\ lastCall.res.kind = "MissingTokens"
    /\ wire = <<>>
    /\ tokens = None

\* C9: a successful refresh sends the refresh token stored at call time as
\* the request's token, then replaces both stored tokens with the pair of
\* the response, which it also returns.
C9_RefreshReplacesBothTokens ==
    (lastCall.op = "refresh_tokens" /\ lastCall.res.kind = "Ok")
    => /\ Len(wire) = 1
       /\ wire[1].body = Some([token |-> lastCall.pre[1].refresh])
       /\ OkEnvelope("token")
       /\ tokens = Body.data.token
       /\ lastCall.res.tokens = Body.data.token

C9_Witness ==
    /\ lastCall.op = "refresh_tokens"
    /\ lastCall.res.kind = "Ok"
    /\ tokens[1].session # lastCall.pre[1].session
    /\ tokens[1].refresh # lastCall.pre[1].refresh

\* C10: when refresh fails (transport error, undecodable body or error
\* envelope), the error is returned and the stored pair is the pair stored
\* before the call.
C10_FailedRefreshKeepsCredentials ==
    (lastCall.op = "refresh_tokens" /\ RemoteFailed("token"))
    => /\ tokens = lastCall.pre
       /\ tokens # None
       /\ lastCall.res.kind = IF ErrorEnvelope THEN "Api" ELSE "Http"

C10_Witness ==
    /\ lastCall.op = "refresh_tokens"
    /\ ErrorEnvelope
    /\ Len(lastCall.res.errors) = 1
    /\ tokens = lastCall.pre

\* The operations that go through send_request.
Dispatching ==
    {"login", "logout", "refresh_tokens", "send", "delete_manga",
     "follow_manga", "unfollow_manga", "add_manga_to_custom_list",
     "remove_manga_from_custom_list"}

\* C11: the stored credentials are absent or one complete (session, refresh)
\* pair installed as a unit: whenever a call leaves a pair other than the one
\* it found, that pair is the whole pair of the login or refresh response, or
\* the pair handed to set_tokens; never a mix of two pairs.
C11_CredentialsInstalledWhole ==
    /\ tokens \in Option(AuthTokens)
    /\ (tokens # None /\ tokens # lastCall.pre) =>
          \/ lastCall.op = "set_tokens"
          \/ /\ lastCall.op \in {"login", "refresh_tokens"}
             /\ OkEnvelope("token")
             /\ tokens = Body.data.token

C11_Witness ==
    /\ lastCall.op = "login"
    /\ lastCall.pre # None
    /\ tokens # None
    /\ tokens[1].session # lastCall.pre[1].session
    /\ tokens[1].refresh # lastCall.pre[1].refresh

\* C12 as stated: only login, logout and refresh change the stored
\* credentials; every other public operation leaves them unchanged.
C12_OnlyThreeOperationsMutate ==
    tokens # lastCall.pre =>
        lastCall.op \in {"login", "logout", "refresh_tokens"}

\* C12 (amended): only login, logout, refresh and the public setter
\* set_tokens change the stored credentials; every endpoint send, ping,
\* get_tokens and the other Client methods leave them unchanged.
C12_OnlyLifecycleAndSetterMutate ==
    tokens # lastCall.pre =>
        lastCall.op \in {"login", "logout", "refresh_tokens", "set_tokens"}

C12_Witness ==
    /\ lastCall.op = "send"
    /\ lastCall.endpoint = "Login"
    /\ OkEnvelope("token")
    /\ lastCall.res.kind = "Ok"
    /\ lastCall.res.tokens # lastCall.pre
    /\ tokens = lastCall.pre

\* C13: every call puts at most one request on the wire, whatever its
\* outcome (no retry), the request is the one of the endpoint called, and a
\* refresh request is sent only when the caller invokes refresh.
C13_AtMostOneRoundTrip ==
    /\ Len(wire) <= 1
    /\ \A i \in DOMAIN wire :
          /\ wire[i].endpoint = lastCall.endpoint
          /\ wire[i].endpoint = "RefreshToken" =>
                lastCall.op \in {"refresh_tokens", "send"}

C13_Witness ==
    /\ lastCall.op = "send"
    /\ lastCall.endpoint = "CheckToken"
    /\ lastCall.res.kind = "Http"
    /\ ~Answered
    /\ Len(wire) = 1

\* C14: no error is suppressed: whenever the answer to a dispatched call
\* carries an error envelope the operation returns an error, also for the
\* operations that discard the payload.
C14_ErrorEnvelopeReturnsError ==
    (lastCall.op \in Dispatching /\ wire # <<>> /\ ErrorEnvelope)
    => lastCall.res.kind = "Api"

\* C19: the error kind of a dispatched call tells its cause: missing
\* credentials give MissingTokens (and nothing is sent), a transport failure
\* or an undecodable body gives Http, an error envelope gives Api with the
\* envelope's list, and no kind is returned for another cause.
C19_ErrorKindTellsCause ==
    lastCall.op \in Dispatching =>
        /\ (wire = <<>>) <=> (lastCall.res.kind = "MissingTokens")
        /\ (wire = <<>>) => lastCall.pre = None
        /\ (wire # <<>> /\ ~Answered) => lastCall.res.kind = "Http"
        /\ (wire # <<>> /\ Answered) =>
              /\ ~Body.json => lastCall.res.kind = "Http"
              /\ (lastCall.res.kind = "Api") <=> ErrorEnvelope
              /\ ErrorEnvelope =>
                    lastCall.res.errors =
                        (IF Body.errors = None THEN <<>> ELSE Body.errors[1])
              /\ (lastCall.res.kind = "Http") =>
                    (~Body.json \/ Body.result # "error")

\* C20: ping succeeds exactly when the body is the literal "pong" and
\* returns PingError for any other body; it is sent without credentials,
\* whether or not some are stored, and leaves them unchanged.
C20_PingExpectsPong ==
    lastCall.op = "ping" =>
        /\ tokens = lastCall.pre
        /\ wire = <<PingRequest>>
        /\ wire[1].bearer = None
        /\ Answered =>
              /\ (lastCall.res.kind = "Ok") <=> (lastCall.net[1].text = "pong")
              /\ (lastCall.net[1].text # "pong") =>
                    lastCall.res.kind = "PingError"
        /\ ~Answered => lastCall.res.kind = "Http"

C20_Witness ==
    /\ lastCall.op = "ping"
    /\ lastCall.pre = None
    /\ Answered
    /\ lastCall.net[1].text = "PONG"
    /\ lastCall.res.kind = "PingError"

-----------------------------------------------------------------------------
(* The envelope decoder on its own: a body is received and the tail of     *)
(* send_request decodes it for an endpoint whose Response type is          *)
(* Result<T>, Vec<Result<T>> or Results<Result<T>>.                        *)

InitDecode ==
    /\ tokens = None
    /\ wire = <<>>
    /\ lastCall = [op |-> "new", endpoint |-> "", auth |-> FALSE,
                   pre |-> None, net |-> None, res |-> Unit]
    /\ prevCall = "other"
    /\ doc \in JsonBodies
    /\ decoded = None
    /\ calls = [c \in Callers |-> Idle]
    /\ copies = <<>>

Decoded(shape, res) ==
    /\ decoded' = Some([shape |-> shape, res |-> res])
    /\ UNCHANGED <<tokens, wire, lastCall, prevCall, doc, calls, copies>>

DecodeResult == Decoded("Result", decode_Result(doc))

DecodeVec == Decoded("Vec", decode_Vec(doc))

DecodeResults == Decoded("Results", decode_Results(doc))

NextDecode == DecodeResult \/ DecodeVec \/ DecodeResults

SpecDecode == InitDecode /\ [][NextDecode]_vars

-----------------------------------------------------------------------------
(* Properties of the envelope decoder.                                     *)

\* The body has the form the Response type decoded into expects.
Fits ==
    \/ decoded[1].shape = "Result" /\ doc.form = "object"
    \/ decoded[1].shape = "Vec" /\ doc.form = "array"
    \/ decoded[1].shape = "Results" /\ doc.form = "page" /\ doc.paging # None

\* The envelope carries what its tag announces: "ok" a data object with an
\* id, "error" a list (or none) of records that have an id and a status.
WellFormed(el) ==
    \/ el.result = "ok" /\ el.data # None /\ el.data[1].id # None
    \/ /\ el.result = "error"
       /\ el.errors # None =>
            \A k \in DOMAIN el.errors[1] :
                el.errors[1][k].id # None /\ el.errors[1][k].status # None

\* The success value an "ok" envelope stands for.
Carried(el) ==
    [kind |-> "Ok",
     data |-> [id |-> el.data[1].id[1], attributes |-> el.data[1].attributes],
     relationships |-> IF el.relationships = None THEN <<>>
                       ELSE el.relationships[1]]

\* The API error an "error" envelope stands for.
Reported(el) ==
    [kind |-> "Api",
     errors |-> IF el.errors = None THEN <<>>
                ELSE [k \in DOMAIN el.errors[1] |->
                        [id |-> el.errors[1][k].id[1],
                         status |-> el.errors[1][k].status[1],
                         title |-> el.errors[1][k].title,
                         detail |-> el.errors[1][k].detail]]]

\* C15: decoding a response whose envelope tag is "ok" yields a success
\* value whose payload equals the data carried by the envelope (for the
\* array and page shapes each ok element yields its own data), with
\* relationships defaulting to empty when absent.
C15_OkEnvelopeYieldsData ==
    decoded # None =>
        LET out == decoded[1].res
        IN /\ (Fits /\ \A i \in DOMAIN doc.items :
                          doc.items[i].result = "ok" /\ WellFormed(doc.items[i]))
              => (out.kind = "Ok" /\ Len(out.items) = Len(doc.items))
           /\ out.kind = "Ok" =>
                \A i \in DOMAIN doc.items :
                    doc.items[i].result = "ok"
                        => out.items[i] = Carried(doc.items[i])

C15_Witness ==
    /\ decoded # None
    /\ decoded[1].shape = "Vec"
    /\ Len(doc.items) = 2
    /\ doc.items[1].result = "ok" /\ doc.items[1].relationships = None
    /\ doc.items[2].result = "ok" /\ doc.items[2].relationships # None
    /\ decoded[1].res.kind = "Ok"
    /\ decoded[1].res.items[1].relationships = <<>>
    /\ Len(decoded[1].res.items[2].relationships) = 1
    /\ decoded[1].res.items[1].data.attributes
         # decoded[1].res.items[2].data.attributes

\* C16: decoding a response whose envelope tag is "error" yields the API
\* error kind whose record list equals the envelope's errors list record
\* for record (id, status, title, detail); when the errors field is absent
\* the list is empty.
C16_ErrorEnvelopeYieldsRecords ==
    decoded # None =>
        LET out == decoded[1].res
        IN /\ (Fits /\ \A i \in DOMAIN doc.items :
                          doc.items[i].result = "error"
                              /\ WellFormed(doc.items[i]))
              => (out.kind = "Ok" /\ Len(out.items) = Len(doc.items))
           /\ out.kind = "Ok" =>
                \A i \in DOMAIN doc.items :
                    doc.items[i].result = "error"
                        => out.items[i] = Reported(doc.items[i])

C16_Witness ==
    /\ decoded # None
    /\ decoded[1].shape = "Results"
    /\ Len(doc.items) = 2
    /\ doc.items[1].result = "error" /\ doc.items[1].errors = None
    /\ doc.items[2].result = "error" /\ doc.items[2].errors # None
    /\ decoded[1].res.kind = "Ok"
    /\ decoded[1].res.items[1] = [kind |-> "Api", errors |-> <<>>]
    /\ decoded[1].res.items[2].kind = "Api"
    /\ Len(decoded[1].res.items[2].errors) = 1
    /\ decoded[1].res.items[2].errors[1].detail = Some("Servers are burning")

\* C17: decoding a paginated response or a bare array in which one element
\* is tagged "ok" and a sibling is tagged "error" yields a list in which
\* each element reflects its own tag (success for the one, API error for
\* the other); the call as a whole still succeeds.
C17_MixedListDecodesPerElement ==
    (/\ decoded # None
     /\ decoded[1].shape \in {"Vec", "Results"}
     /\ Fits
     /\ \A i \in DOMAIN doc.items : WellFormed(doc.items[i])
     /\ \E i, j \in DOMAIN doc.items :
            doc.items[i].result = "ok" /\ doc.items[j].result = "error")
    => /\ decoded[1].res.kind = "Ok"
       /\ Len(decoded[1].res.items) = Len(doc.items)
       /\ \A i \in DOMAIN doc.items :
            decoded[1].res.items[i].kind
                = IF doc.items[i].result = "ok" THEN "Ok" ELSE "Api"

C17_Witness ==
    /\ decoded # None
    /\ decoded[1].shape = "Vec"
    /\ Len(doc.items) = 2
    /\ doc.items[1].result = "ok"
    /\ doc.items[2].result = "error"
    /\ decoded[1].res.kind = "Ok"
    /\ decoded[1].res.items[1].kind = "Ok"
    /\ decoded[1].res.items[2].kind = "Api"

\* C18: a response whose "result" value is neither "ok" nor "error", or
\* that has no result field, yields the error of a body that cannot be
\* decoded; it never yields a success value.
C18_UnknownTagIsDecodeError ==
    (/\ decoded # None
     /\ \E i \in DOMAIN doc.items :
            doc.items[i].result \notin {"ok", "error"})
    => /\ decoded[1].res.kind = "Http"
       /\ decoded[1].res.is_decode
       /\ decoded[1].res.items = <<>>

C18_Witness ==
    /\ decoded # None
    /\ decoded[1].shape = "Result"
    /\ doc.form = "object"
    /\ doc.items[1].result = "absent"
    /\ doc.items[1].data # None
    /\ decoded[1].res.kind = "Http"

-----------------------------------------------------------------------------
(* Further properties of the dispatcher.                                   *)

-----------------------------------------------------------------------------
(* One Client shared by concurrent callers.  A call begins when its future *)
(* is first polled (it reads the credentials and puts its request on the   *)
(* wire) and ends when the answer arrives (login, logout and               *)
(* refresh_tokens then write the credentials).  The borrow a method takes  *)
(* on the Client lasts from the one to the other.                          *)

\* Methods that take `&mut self` and await the network.
Exclusive == {"login", "logout", "refresh_tokens"}

\* a `&mut self` borrow granted while other borrows of the Client are live
MutBorrow_unchecked(c) == calls[c].op = "idle"

\* `&mut self`: no other borrow of the Client is live
MutBorrow(c) == \A d \in Callers : calls[d].op = "idle"

\* `&self`: no exclusive borrow of the Client is live
SharedBorrow(c) ==
    /\ calls[c].op = "idle"
    /\ \A d \in Callers : calls[d].op \notin Exclusive

Begin(c, op, req, held) ==
    /\ calls' = [calls EXCEPT ![c] = [op |-> op, pre |-> tokens,
                                      req |-> req, held |-> held]]
    /\ UNCHANGED <<tokens, wire, lastCall, prevCall, doc, decoded, copies>>

\* The call of caller c returns and leaves `toks` stored.
End(c, toks) ==
    /\ tokens' = toks
    /\ calls' = [calls EXCEPT ![c] = Idle]
    /\ UNCHANGED <<wire, lastCall, prevCall, doc, decoded, copies>>

BeginLogin(c) ==
    /\ MutBorrow(c)
    /\ \E u \in Usernames, p \in Passwords :
           Begin(c, "login", login(tokens, u, p, None).wire, None)

EndLogin(c) ==
    /\ calls[c].op = "login"
    /\ \E u \in Usernames, p \in Passwords, net \in NetAnswers :
           End(c, login(tokens, u, p, net).tokens)

BeginLogout(c) ==
    /\ MutBorrow(c)
    /\ Begin(c, "logout", logout(tokens, None).wire, None)

EndLogout(c) ==
    /\ calls[c].op = "logout"
    /\ \E net \in NetAnswers :
           End(c, IF calls[c].req = <<>> THEN tokens
                  ELSE logout(tokens, net).tokens)

BeginRefreshTokens(c) ==
    /\ MutBorrow(c)
    /\ Begin(c, "refresh_tokens", refresh_tokens(tokens, None).wire, None)

EndRefreshTokens(c) ==
    /\ calls[c].op = "refresh_tokens"
    /\ \E net \in NetAnswers :
           End(c, IF calls[c].req = <<>> THEN tokens
                  ELSE refresh_tokens(tokens, net).tokens)

\* endpoint.send(&client): `&self`
BeginSend(c) ==
    /\ SharedBorrow(c)
    /\ \E e \in Endpoints : \E data \in Payloads(e) :
           Begin(c, "send", send(tokens, e, data, None).wire, None)

EndSend(c) ==
    /\ calls[c].op = "send"
    /\ End(c, tokens)

\* client.get_tokens(): the caller keeps the reference it is given
BeginGetTokens(c) ==
    /\ SharedBorrow(c)
    /\ Begin(c, "get_tokens", <<>>, get_tokens(tokens))

\* the caller drops the reference
EndGetTokens(c) ==
    /\ calls[c].op = "get_tokens"
    /\ End(c, tokens)

\* client.set_tokens(new): `&mut self`, returns at once
SharedSetTokens(c) ==
    /\ MutBorrow(c)
    /\ \E new \in Option(AuthTokens) :
           /\ tokens' = set_tokens(tokens, new)
           /\ UNCHANGED <<wire, lastCall, prevCall, doc, decoded, calls, copies>>

NextShared ==
    \E c \in Callers :
        \/ BeginLogin(c)
        \/ EndLogin(c)
        \/ BeginLogout(c)
        \/ EndLogout(c)
        \/ BeginRefreshTokens(c)
        \/ EndRefreshTokens(c)
        \/ BeginSend(c)
        \/ EndSend(c)
        \/ BeginGetTokens(c)
        \/ EndGetTokens(c)
        \/ SharedSetTokens(c)

SpecShared == Init /\ [][NextShared]_vars

\* C22: when login, logout and refresh are invoked by concurrent callers
\* sharing one Client, their effects on the credentials are serialized: a
\* call that writes the credentials runs alone, every request in flight
\* carries the session token that is stored (the refresh request the stored
\* refresh token), and a caller that holds the pair it read holds the
\* stored pair, whole.
C22_SharedClientSerialized ==
    \A c \in Callers :
        /\ calls[c].op \in Exclusive =>
              \A d \in Callers \ {c} : calls[d].op = "idle"
        /\ calls[c].op # "idle" => calls[c].pre = tokens
        /\ \A i \in DOMAIN calls[c].req :
              /\ calls[c].req[i].bearer
                   = IF tokens = None THEN None ELSE Some(tokens[1].session)
              /\ calls[c].op = "refresh_tokens" =>
                   calls[c].req[i].body = Some([token |-> tokens[1].refresh])
        /\ calls[c].op = "get_tokens" => calls[c].held = tokens

C22_Witness ==
    /\ tokens # None
    /\ tokens[1].session # tokens[1].refresh
    /\ calls[2].op = "refresh_tokens"
    /\ calls[2].req # <<>>
    /\ calls[2].req[1].bearer = Some(tokens[1].session)
    /\ calls[1].op = "idle"

-----------------------------------------------------------------------------
(* Properties of the generated send() and of request building.             *)

\* The descriptor the last call dispatched.
LastEndpoint == CHOOSE e \in Endpoints : e.name = lastCall.endpoint

\* C23: the send() of an endpoint tagged flatten_result returns one result
\* that is an error when the dispatch fails (missing credentials, transport,
\* decode) or the envelope is an error, and the payload when both succeed;
\* the send() of an endpoint tagged discard_result returns the unit success
\* in that same both-succeed case and the corresponding error otherwise.
C23_SendFlattensBothLayers ==
    lastCall.op = "send" =>
        LET e == LastEndpoint
            res == lastCall.res
        IN CASE wire = <<>> -> res = Err("MissingTokens")
             [] wire # <<>> /\ ~Answered -> res = Err("Http")
             [] wire # <<>> /\ ErrorEnvelope ->
                    /\ res.kind = "Api"
                    /\ res.errors = IF Body.errors = None THEN <<>>
                                    ELSE Body.errors[1]
             [] wire # <<>> /\ OkEnvelope(e.resp) ->
                    IF e.out = "discard_result" THEN res = Unit
                    ELSE res = Ok(Body.data)
             [] OTHER -> res = Err("Http")

C23_Witness ==
    /\ lastCall.op = "send"
    /\ lastCall.endpoint = "Logout"
    /\ ErrorEnvelope
    /\ Body.errors # None
    /\ lastCall.res.kind = "Api"
    /\ Len(lastCall.res.errors) = 1

-----------------------------------------------------------------------------
(* Request building on its own: send_request called with descriptors of    *)
(* every payload kind.                                                     *)

AuthorIds == {"a1", "a2"}

\* The data a caller can put in descriptor e.
RequestPayloads(e) ==
    CASE e.name = "ListAuthors" ->
            [limit : Option({"10"}), offset : Option({"0"}),
             ids : SeqsUpTo(AuthorIds, MaxIds), name : Option({"oda"})]
      [] e.name = "GetLoggedUserCustomLists" ->
            [limit : Option({"10"}), offset : Option({"0"})]
      [] e.name = "CreateAuthor" -> [name : {"oda"}, version : {1}]
      [] e.name = "UploadCover" -> [image_bytes : {"png"}]
      [] OTHER -> Payloads(e)

\* The transport fails, or an ok envelope arrives.
RequestAnswers ==
    {None,
     Some([status |-> 200,
           body |-> [json |-> TRUE, result |-> "ok",
                     data |-> [kind |-> "other", token |-> None],
                     errors |-> None]])}

\* client.send_request(&endpoint)
CallSendRequest ==
    \E e \in Descriptors, net \in RequestAnswers :
        \E data \in RequestPayloads(e) :
            LET r == send_request(tokens, e, data, net)
            IN /\ wire' = r.wire
               /\ lastCall' = [op |-> "send_request", endpoint |-> e.name,
                               auth |-> e.auth, pre |-> tokens,
                               net |-> IF r.wire = <<>> THEN None ELSE net,
                               res |-> r.res, data |-> data]
               /\ prevCall' = IF lastCall.op = "login" THEN "login"
                              ELSE "other"
               /\ UNCHANGED <<tokens, doc, decoded, calls, copies>>

NextRequests == CallSetTokens \/ CallSendRequest

SpecRequests == Init /\ [][NextRequests]_vars

\* C24: for every endpoint descriptor the dispatcher places the payload
\* according to its kind: a query payload is serialized only into the URL
\* query string, a body payload only into the JSON request body, and a
\* no-data endpoint sends neither; the method and path of the request are
\* those of the descriptor.
C24_PayloadPlacedByKind ==
    (lastCall.op = "send_request" /\ wire # <<>>) =>
        LET e == CHOOSE d \in Descriptors : d.name = lastCall.endpoint
            r == wire[1]
        IN /\ Len(wire) = 1
           /\ r.method = e.method
           /\ r.path = e.path
           /\ e.payload = "query" =>
                /\ r.query = Some(query_qs(lastCall.data))
                /\ r.body = None
                /\ r.multipart = None
           /\ e.payload = "body" =>
                /\ r.body = Some(lastCall.data)
                /\ r.query = None
                /\ r.multipart = None
           /\ e.payload = "no_data" =>
                /\ r.query = None
                /\ r.body = None
                /\ r.multipart = None

C24_Witness ==
    /\ lastCall.op = "send_request"
    /\ lastCall.endpoint = "ListAuthors"
    /\ Len(lastCall.data.ids) = 2
    /\ lastCall.data.limit = None
    /\ lastCall.data.name # None
    /\ Len(wire) = 1
    /\ wire[1].body = None
    /\ wire[1].query # None
    /\ Len(wire[1].query[1]) = 3
    /\ wire[1].query[1][2].index = Some(1)

\* C25: the outcome of a dispatched call is determined by the decoded body
\* alone, whatever the status code: an error envelope yields the API error
\* (also under a 2xx status) and a decodable ok envelope yields success
\* (also under a non-2xx status), login and refresh then storing the pair
\* it carries.
C25_BodyAloneDecides ==
    (lastCall.op \in Dispatching /\ wire # <<>> /\ Answered) =>
        LET e == CHOOSE d \in Endpoints \cup {DeleteManga, UnfollowManga,
                                   AddMangaToCustomList,
                                   RemoveMangaFromCustomList} :
                     d.name = lastCall.endpoint
        IN /\ ErrorEnvelope =>
                (lastCall.res.kind = "Api" /\ tokens = lastCall.pre)
           /\ OkEnvelope(e.resp) =>
                /\ lastCall.res.kind = "Ok"
                /\ lastCall.op \in {"login", "refresh_tokens"} =>
                      tokens = Body.data.token
           /\ (~ErrorEnvelope /\ ~OkEnvelope(e.resp)) =>
                lastCall.res.kind = "Http"

-----------------------------------------------------------------------------
(* Further properties of the envelope decoder.                             *)

\* What a well-formed envelope stands for.
Meant(el) == IF el.result = "ok" THEN Carried(el) ELSE Reported(el)

\* C26: decoding a page preserves its shape: the resulting list has the
\* length and the element order of the results array on the wire, and
\* limit, offset and total are copied unchanged, whatever mix of ok and
\* error elements it contains.
C26_PageKeepsShape ==
    (decoded # None /\ decoded[1].shape = "Results") =>
        LET out == decoded[1].res
        IN /\ (Fits /\ \A i \in DOMAIN doc.items : WellFormed(doc.items[i]))
                => out.kind = "Ok"
           /\ out.kind = "Ok" =>
                /\ Len(out.items) = Len(doc.items)
                /\ \A i \in DOMAIN doc.items : out.items[i] = Meant(doc.items[i])
                /\ out.paging # None
                /\ out.paging[1].limit = doc.paging[1].limit
                /\ out.paging[1].offset = doc.paging[1].offset
                /\ out.paging[1].total = doc.paging[1].total

C26_Witness ==
    /\ decoded # None
    /\ decoded[1].shape = "Results"
    /\ Len(doc.items) = 2
    /\ doc.items[1].result = "error"
    /\ doc.items[2].result = "ok"
    /\ decoded[1].res.kind = "Ok"
    /\ decoded[1].res.items[1].kind = "Api"
    /\ decoded[1].res.items[2].kind = "Ok"
    /\ decoded[1].res.paging = Some([limit |-> 10, offset |-> 0, total |-> 2])

\* C27: if any single element of a page or array response is malformed
\* (unknown or missing result tag, or a payload that does not fit the
\* expected type), the whole call fails with a decode error and no partial
\* list is returned.
C27_MalformedElementFailsWhole ==
    (/\ decoded # None
     /\ decoded[1].shape \in {"Vec", "Results"}
     /\ \E i \in DOMAIN doc.items : ~WellFormed(doc.items[i]))
    => decoded[1].res = DecodeError

C27_Witness ==
    /\ decoded # None
    /\ decoded[1].shape = "Results"
    /\ doc.form = "page"
    /\ doc.paging # None
    /\ Len(doc.items) = 2
    /\ WellFormed(doc.items[1]) /\ doc.items[1].result = "ok"
    /\ doc.items[2].result = "ok" /\ doc.items[2].data = None
    /\ decoded[1].res.kind = "Http"
    /\ decoded[1].res.items = <<>>

-----------------------------------------------------------------------------
(* Where stored credentials come from.                                     *)

\* C28: a newly constructed Client stores no credentials, and credentials
\* are present only if a successful login, a successful refresh or
\* set_tokens with a pair installed them and no successful logout or
\* set_tokens with none cleared them since: after each call a stored pair is
\* the one that call installed or the one it found, and a successful logout
\* leaves none.
C28_CredentialsHaveAnOrigin ==
    /\ lastCall.op = "new" => tokens = None
    /\ (lastCall.op = "logout" /\ lastCall.res.kind = "Ok") => tokens = None
    /\ tokens # None =>
          \/ /\ lastCall.op \in {"login", "refresh_tokens"}
             /\ lastCall.res.kind = "Ok"
             /\ OkEnvelope("token")
             /\ tokens = Body.data.token
          \/ lastCall.op = "set_tokens"
          \/ /\ tokens = lastCall.pre
             /\ lastCall.op \notin {"new", "set_tokens"}
             /\ ~(lastCall.op \in {"login", "refresh_tokens"}
                    /\ lastCall.res.kind = "Ok")

C28_Witness ==
    /\ lastCall.op = "logout"
    /\ lastCall.res.kind = "Ok"
    /\ prevCall = "login"
    /\ lastCall.pre # None
    /\ tokens = None

-----------------------------------------------------------------------------
(* Clones of the Client.  Client derives Clone and owns its tokens field,  *)
(* so client.clone() copies the stored pair.  Client 0 is the one          *)
(* Client::new made, client k > 0 the k-th clone.                          *)

\* Pairs the service hands out to the clients.
ClonePairs == {[session |-> t, refresh |-> t] : t \in TokenStr}

\* The transport fails, or an ok envelope arrives with a pair or with none.
CloneAnswers ==
    {None,
     Some([status |-> 200,
           body |-> [json |-> TRUE, result |-> "ok",
                     data |-> [kind |-> "unit", token |-> None],
                     errors |-> None]])}
    \cup {Some([status |-> 200,
                body |-> [json |-> TRUE, result |-> "ok",
                          data |-> [kind |-> "token", token |-> Some(t)],
                          errors |-> None]]) : t \in ClonePairs}

Clients == 0..Len(copies)

\* The credentials client k stores.
Stored(k) == IF k = 0 THEN tokens ELSE copies[k]

\* The call as the last one made, by client k.
Called(k, op, e, net, out) ==
    /\ wire' = out.wire
    /\ lastCall' = [op |-> op, endpoint |-> e.name, auth |-> e.auth,
                    pre |-> Stored(k),
                    net |-> IF out.wire = <<>> THEN None ELSE net,
                    res |-> out.res, client |-> k,
                    before |-> [tokens |-> tokens, copies |-> copies]]
    /\ prevCall' = IF lastCall.op = "login" THEN "login" ELSE "other"
    /\ UNCHANGED <<doc, decoded, calls>>

\* clients that all write the one pair they share
Commit_shared(k, op, e, net, out) ==
    /\ tokens' = out.tokens
    /\ copies' = [i \in DOMAIN copies |-> out.tokens]
    /\ Called(k, op, e, net, out)

\* A call of `op` on client k returned with outcome `out`.
Commit(k, op, e, net, out) ==
    /\ IF k = 0
       THEN tokens' = out.tokens /\ copies' = copies
       ELSE tokens' = tokens /\ copies' = [copies EXCEPT ![k] = out.tokens]
    /\ Called(k, op, e, net, out)

\* client.clone()
Clone(k) ==
    /\ Len(copies) < MaxClones
    /\ copies' = Append(copies, Stored(k))
    /\ tokens' = tokens
    /\ Called(k, "clone", [name |-> "", auth |-> FALSE], None,
              [wire |-> <<>>, res |-> Unit])

LoginOn(k) ==
    \E u \in Usernames, p \in Passwords, net \in CloneAnswers :
        Commit(k, "login", Login, net, login(Stored(k), u, p, net))

LogoutOn(k) ==
    \E net \in CloneAnswers :
        Commit(k, "logout", Logout, net, logout(Stored(k), net))

RefreshTokensOn(k) ==
    \E net \in CloneAnswers :
        Commit(k, "refresh_tokens", RefreshToken, net,
               refresh_tokens(Stored(k), net))

SetTokensOn(k) ==
    \E new \in Option(ClonePairs) :
        Commit(k, "set_tokens", [name |-> "", auth |-> FALSE], None,
               [tokens |-> set_tokens(Stored(k), new), wire |-> <<>>,
                res |-> Unit])

SendOn(k) ==
    \E e \in {GetManga, FollowManga}, net \in CloneAnswers :
        LET r == send(Stored(k), e, None, net)
        IN Commit(k, "send", e, net,
                  [tokens |-> Stored(k), wire |-> r.wire, res |-> r.res])

NextClones ==
    \E k \in Clients :
        \/ Clone(k)
        \/ LoginOn(k)
        \/ LogoutOn(k)
        \/ RefreshTokensOn(k)
        \/ SetTokensOn(k)
        \/ SendOn(k)

SpecClones == Init /\ [][NextClones]_vars

\* The credentials client j stored before the last call.
StoredBefore(j) ==
    IF j = 0 THEN lastCall.before.tokens ELSE lastCall.before.copies[j]

\* C29: a cloned Client holds its own copy of the credentials: a clone
\* starts with the pair of the Client it was made of, login, logout,
\* refresh or set_tokens on one client never changes the credentials
\* stored in another, and each client dispatches with the session token it
\* stores itself.
C29_ClonesOwnTheirCredentials ==
    lastCall.op # "new" =>
        /\ \A j \in 0..Len(lastCall.before.copies) :
              j # lastCall.client => Stored(j) = StoredBefore(j)
        /\ lastCall.op = "clone" =>
              /\ Len(copies) = Len(lastCall.before.copies) + 1
              /\ copies[Len(copies)] = StoredBefore(lastCall.client)
              /\ Stored(lastCall.client) = StoredBefore(lastCall.client)
        /\ lastCall.op # "clone" => Len(copies) = Len(lastCall.before.copies)
        /\ \A i \in DOMAIN wire :
              wire[i].bearer
                = IF StoredBefore(lastCall.client) = None THEN None
                  ELSE Some(StoredBefore(lastCall.client)[1].session)

C29_Witness ==
    /\ lastCall.op = "logout"
    /\ lastCall.client = 0
    /\ lastCall.res.kind = "Ok"
    /\ lastCall.before.tokens # None
    /\ tokens = None
    /\ Len(copies) = 1
    /\ copies[1] = lastCall.before.tokens

=============================================================================
